---- MODULE Spec2Model ----
(***************************************************************************)
(* Model of pkg/kubernetes (the Kubernetes engine: New, Diff, Apply, Info, *)
(* listOrphaned, parallelGetByLabels) and of manifest.Identifier.          *)
(*                                                                         *)
(* Go values are encoded as follows.  A nil pointer, a nil error and a nil *)
(* slice are the empty tuple Nil; a non-nil *string holding s is <<s>>, a  *)
(* non-nil manifest.List holding l is <<l>>, an error is a non-empty tuple *)
(* of message parts (errors.Wrap prepends its message).                    *)
(***************************************************************************)
EXTENDS Integers, Sequences, FiniteSets, TLC

\* ------------------------------------------------------------------ bounds

\* How many entries of the category catalog (kinds, listOrphaned) are scanned.
NumKinds == 3

\* ------------------------------------------------------------- Go encodings

Nil == <<>>

Some(x) == <<x>>

\* errors.Wrap: the message is put in front of the cause.
Wrap(err, msg) == <<msg>> \o err

\* errors.Wrapf with one argument: the format and its argument, then the cause.
Wrapf(err, format, arg) == <<format, arg>> \o err

Range(s) == {s[j] : j \in 1..Len(s)}

\* ------------------------------------------------------------- manifest

\* A manifest: kind, metadata (name, namespace, labels) and an opaque body.
Manifest(kind, name, namespace, labels, body) ==
    [kind |-> kind, name |-> name, namespace |-> namespace,
     labels |-> labels, body |-> body]

\* An identifier that leaves the namespace out.
IdentifierWithoutNamespace(m) == [Kind |-> m.kind, Name |-> m.name, Namespace |-> ""]

\* func (m Manifest) Identifier() Identifier
Identifier(m) == [Kind |-> m.kind, Name |-> m.name, Namespace |-> m.namespace]

\* ------------------------------------------------------------- catalog

\* kinds := []string{...} in listOrphaned.
Catalog ==
    <<"ConfigMap", "Endpoints", "Namespace", "PersistentVolumeClaim",
      "PersistentVolume", "Pod", "ReplicationController", "Secret",
      "ServiceAccount", "Service", "DaemonSet", "Deployment", "ReplicaSet",
      "StatefulSet", "Job", "CronJob", "Ingress", "ClusterRole",
      "ClusterRoleBinding", "Role", "RoleBinding">>

\* The scanned prefix of the catalog, in launch order.
kinds == SubSeq(Catalog, 1, NumKinds)

Kinds == Range(kinds)

\* The process-wide label key naming environment membership.
LabelEnvironment == "LabelEnvironment"


\* ------------------------------------------------------------- versions

\* A semantic version <<major, minor, patch, pre>>; pre = 0 is a release,
\* pre = n > 0 the n-th pre-release of major.minor.patch.
Version(major, minor, patch, pre) == <<major, minor, patch, pre>>

\* semver.MustParse("1.13.0")
NativeDiffSince == Version(1, 13, 0, 0)

\* compareSegment of semver: -1, 0 or 1.
CompareSegment(a, b) == IF a < b THEN -1 ELSE IF a > b THEN 1 ELSE 0

\* comparePrerelease of semver as called by Compare: a release sorts after
\* every pre-release of the same major.minor.patch.
ComparePrerelease(a, b) ==
    IF a = 0 /\ b = 0 THEN 0
    ELSE IF a = 0 THEN 1
    ELSE IF b = 0 THEN -1
    ELSE CompareSegment(a, b)

\* (*semver.Version).Compare: major, then minor, then patch, then pre-release.
Compare(v, o) ==
    IF CompareSegment(v[1], o[1]) # 0 THEN CompareSegment(v[1], o[1])
    ELSE IF CompareSegment(v[2], o[2]) # 0 THEN CompareSegment(v[2], o[2])
    ELSE IF CompareSegment(v[3], o[3]) # 0 THEN CompareSegment(v[3], o[3])
    ELSE ComparePrerelease(v[4], o[4])

\* A comparison that looks at the minor version only.
LessThanMinorOnly(v, o) == v[2] < o[2]

\* (*semver.Version).LessThan
LessThan(v, o) == Compare(v, o) < 0

\* ------------------------------------------------------------- inputs

\* Server versions a cluster may report.
Versions ==
    {Version(1, 12, 9, 0), Version(1, 13, 0, 0), Version(1, 13, 0, 1),
     Version(1, 13, 1, 0), Version(0, 14, 0, 0)}

\* The version a server is upgraded to.
UpgradedVersion == Version(1, 13, 1, 0)

\* client.Info as the client reports it for a server version.
ClientInfo(v) == [ServerVersion |-> v, Cluster |-> "cluster", Context |-> "context"]

\* Strategy names a configuration or a call may carry ("" is unset).
StrategyNames == {"", "native", "subset", "bogus"}

\* v1alpha1.Config as far as this package reads it.
Config(diffStrategy) ==
    [Spec |-> [APIServer |-> "https://apiserver", Namespace |-> "prod",
               DiffStrategy |-> diffStrategy],
     Metadata |-> [NameLabel |-> "env"]]


\* Labels of a resource that belongs to the environment.
EnvLabels == [key \in {LabelEnvironment} |-> Config("").Metadata.NameLabel]

\* A successful and a failed answer of GetByLabels.
Ok(list) == [list |-> list, err |-> Nil]

Fail(cause) == [list |-> Nil, err |-> <<cause>>]

\* A GetByLabels call that never returns.
Hang == [list |-> Nil, err |-> Nil, never |-> TRUE]

\* What the cluster may answer to the query for one kind.  The live body of
\* "api" differs from the desired one; "other" is a second namespace.
Responses(kind) ==
    {Ok(<<>>),
     Ok(<<Manifest(kind, "api", "prod", EnvLabels, "live")>>),
     Ok(<<Manifest(kind, "api", "other", EnvLabels, "live"),
          Manifest(kind, "worker", "prod", EnvLabels, "live")>>),
     Fail("timeout")}

\* Every cluster over the scanned kinds.
Clusters == {c \in [Kinds -> UNION {Responses(kd) : kd \in Kinds}] :
                \A kd \in Kinds : c[kd] \in Responses(kd)}

\* Two clusters for the engine-level runs: one healthy, one with a failing kind.
EngineClusters ==
    {[kd \in Kinds |-> Ok(<<Manifest(kd, "api", "prod", EnvLabels, "live")>>)],
     [kd \in Kinds |-> IF kd = kinds[1] THEN Fail("timeout")
                       ELSE Ok(<<Manifest(kd, "api", "other", EnvLabels, "live"),
                                 Manifest(kd, "worker", "prod", EnvLabels, "live")>>)]}

\* Clusters in which the query of exactly one kind never returns.
HangClusters ==
    {c \in [Kinds -> UNION {Responses(kd) : kd \in Kinds} \cup {Hang}] :
        /\ \E hung \in Kinds : c[hung] = Hang /\ \A kd \in Kinds \ {hung} : c[kd] # Hang
        /\ \A kd \in Kinds : c[kd] \in Responses(kd) \cup {Hang}}

\* Every manifest of the answers of cluster c, in catalog order.
RECURSIVE LiveFrom(_, _)
LiveFrom(c, n) ==
    IF n > NumKinds THEN <<>> ELSE c[kinds[n]].list \o LiveFrom(c, n + 1)

Live(c) == LiveFrom(c, 1)

\* Desired states a caller may pass for cluster c: nothing, one manifest, a
\* list with a repeated manifest, and the live set itself.
DesiredStates(c) ==
    {<<>>,
     <<Manifest(kinds[1], "api", "prod", EnvLabels, "desired")>>,
     <<Manifest(kinds[1], "api", "prod", EnvLabels, "desired"),
       Manifest(kinds[NumKinds], "worker", "prod", EnvLabels, "desired"),
       Manifest(kinds[1], "api", "prod", EnvLabels, "desired")>>,
     Live(c)}

\* Desired states passed to Diff and Apply in the engine-level runs.
EngineStates ==
    {<<>>, <<Manifest(kinds[1], "api", "prod", EnvLabels, "desired")>>}

\* What a Differ may return: no diff, an empty diff text, a diff text, an error.
DifferOutputs ==
    {[d |-> Nil, err |-> Nil], [d |-> Some(""), err |-> Nil],
     [d |-> Some("diff"), err |-> Nil], [d |-> Nil, err |-> <<"kubectl diff">>]}

\* What util.Diffstat may return.
DiffstatOutputs ==
    {[d |-> Some("diffstat"), err |-> Nil], [d |-> Nil, err |-> <<"diffstat">>]}

\* DiffOpts and ApplyOpts a caller may pass.
DiffOptsSet == [Summarize : BOOLEAN, Strategy : StrategyNames]

ApplyOptsSet == [AutoApprove : BOOLEAN]

\* ------------------------------------------------------------- pure parts

\* New, "setup diffing": the strategy stored in k.Env.Spec.DiffStrategy.
SetupDiffing(configured, serverVersion) ==
    IF configured = ""
    THEN IF LessThan(serverVersion, NativeDiffSince) THEN "subset" ELSE "native"
    ELSE configured

\* New: the registry k.differs.
Differs == [native |-> "ctl.DiffServerSide", subset |-> "SubsetDiffer(ctl)"]

\* A resolution in which the instance default wins over the per-call override.
ResolveDefaultWins(default, override) ==
    IF default # "" THEN default ELSE override

\* Diff: strategy := k.Env.Spec.DiffStrategy, replaced by a non-empty opts.Strategy.
ResolveStrategy(default, override) ==
    IF override # "" THEN override ELSE default

\* A Diff that takes an empty diff text for no diff.
DiffReturnEmptyIsNil(out, summarize, stat) ==
    IF out.err # Nil THEN [val |-> Nil, err |-> out.err, calls |-> <<>>]
    ELSE IF out.d = Nil \/ out.d = Some("") THEN [val |-> Nil, err |-> Nil, calls |-> <<>>]
    ELSE IF summarize
         THEN [val |-> stat.d, err |-> stat.err, calls |-> <<<<"util.Diffstat", out.d[1]>>>>]
         ELSE [val |-> out.d, err |-> Nil, calls |-> <<>>]

\* Diff after the differ returned out = (d, err): the switch, then Diffstat(*d)
\* when opts.Summarize, else d.  calls lists the collaborator calls made.
DiffReturn(out, summarize, stat) ==
    IF out.err # Nil THEN [val |-> Nil, err |-> out.err, calls |-> <<>>]
    ELSE IF out.d = Nil THEN [val |-> Nil, err |-> Nil, calls |-> <<>>]
    ELSE IF summarize
         THEN [val |-> stat.d, err |-> stat.err, calls |-> <<<<"util.Diffstat", out.d[1]>>>>]
         ELSE [val |-> out.d, err |-> Nil, calls |-> <<>>]

\* An Info that asks the client again.
InfoRequeried(engine, liveInfo) == liveInfo

\* Info: return k.info
InfoReturn(engine, liveInfo) == engine.info

\* A known set built from all but the last manifest of state.
KnownButLast(st) == {Identifier(st[j]) : j \in 1..(Len(st) - 1)}

\* listOrphaned: known[m.Identifier()] = true for every m of state.
Known(st) == {Identifier(st[j]) : j \in 1..Len(st)}

\* A filter that compares kind and name only.
RECURSIVE UnknownByKindAndName(_, _)
UnknownByKindAndName(list, knownSet) ==
    IF list = <<>> THEN <<>>
    ELSE IF \E id \in knownSet : id.Kind = Head(list).kind /\ id.Name = Head(list).name
         THEN UnknownByKindAndName(Tail(list), knownSet)
         ELSE <<Head(list)>> \o UnknownByKindAndName(Tail(list), knownSet)

\* listOrphaned, case list := <-r: the manifests of list whose identifier is
\* not known, in order.
RECURSIVE Unknown(_, _)
Unknown(list, knownSet) ==
    IF list = <<>> THEN <<>>
    ELSE IF Identifier(Head(list)) \in knownSet
         THEN Unknown(Tail(list), knownSet)
         ELSE <<Head(list)>> \o Unknown(Tail(list), knownSet)


\* ------------------------------------------------------------- state

VARIABLES
    phase,      \* "start" before New, "ready" once New returned k, "failed"
    k,          \* the Kubernetes struct: Env, ctl, info, differs (Nil before New)
    live,       \* the client.Info the client would report now
    cluster,    \* what GetByLabels answers for each kind
    ret,        \* the last engine call and what it returned
    calls,      \* client and collaborator calls made by that call's goroutine
    panicked,   \* Nil, or the panic that ended the process
    cpc,        \* where the goroutine running Diff / Apply / listOrphaned is
    state,      \* listOrphaned: the desired state it was given
    aopts,      \* Apply: its ApplyOpts
    stdin,      \* Apply: what the user types if asked to confirm
    known,      \* listOrphaned: known
    orphaned,   \* listOrphaned: orphaned
    lastErr,    \* listOrphaned: lastErr
    li,         \* listOrphaned: index of the next kind to launch
    i,          \* listOrphaned: i of the fan-in loop
    rClosed,    \* channel r is closed
    eClosed,    \* channel e is closed
    loRet,      \* what listOrphaned returned: [list, err]
    stdout,     \* the lines this call has written to standard output
    wpc,        \* per kind, where its parallelGetByLabels goroutine is
    wres,       \* per kind, list and err as GetByLabels returned them
    qlog,       \* per kind, the GetByLabels calls made for it in this call
    got,        \* what the fan-in loop received, in order: [from, ch]
    leaked,     \* a goroutine of an earlier call is still on its way to a send
    idIn,       \* two manifests handed to Identifier
    idOut       \* Nil, or the two identifiers Identifier returned for idIn

engineVars == <<phase, k, live, ret, calls>>

envVars == <<cluster>>

loVars == <<cpc, state, aopts, stdin, known, orphaned, lastErr, li, i, rClosed, eClosed, loRet,
           stdout>>

wVars == <<wpc, wres, qlog, got, leaked>>

idVars == <<idIn, idOut>>

vars == <<engineVars, envVars, loVars, wVars, panicked, idVars>>

\* The process has not panicked.
Alive == panicked = Nil

NoRet == [op |-> "none"]

\* listOrphaned's locals before any call.
LoIdle ==
    /\ cpc = "idle"
    /\ state = <<>>
    /\ aopts = [AutoApprove |-> FALSE]
    /\ stdin = ""
    /\ known = {}
    /\ orphaned = <<>>
    /\ lastErr = Nil
    /\ li = 1
    /\ i = 0
    /\ rClosed = FALSE
    /\ eClosed = FALSE
    /\ loRet = NoRet
    /\ stdout = <<>>
    /\ wpc = [kd \in Kinds |-> "idle"]
    /\ wres = [kd \in Kinds |-> Ok(<<>>)]
    /\ qlog = [kd \in Kinds |-> <<>>]
    /\ got = <<>>
    /\ leaked = FALSE
    /\ idIn = <<>>
    /\ idOut = Nil

\* Before New: any server version, one of the engine-level clusters.
Init ==
    /\ phase = "start"
    /\ k = Nil
    /\ live \in {ClientInfo(v) : v \in Versions}
    /\ cluster \in EngineClusters
    /\ ret = NoRet
    /\ calls = <<>>
    /\ panicked = Nil
    /\ LoIdle

\* ------------------------------------------------------------- New

\* New(c): client.New fails, or ctl.Info fails, or the engine is built.
New(c, clientErr, infoErr) ==
    /\ phase = "start"
    /\ Alive
    /\ IF clientErr # Nil
       THEN /\ phase' = "failed"
            /\ k' = Nil
            /\ ret' = [op |-> "New", args |-> c, val |-> Nil,
                       err |-> Wrap(clientErr, "creating client")]
            /\ calls' = <<<<"client.New", c.Spec.APIServer>>>>
       ELSE IF infoErr # Nil
       THEN /\ phase' = "failed"
            /\ k' = Nil
            /\ ret' = [op |-> "New", args |-> c, val |-> Nil, err |-> infoErr]
            /\ calls' = <<<<"client.New", c.Spec.APIServer>>, <<"ctl.Info">>>>
       ELSE /\ phase' = "ready"
            /\ k' = [Env |-> [c EXCEPT !.Spec.DiffStrategy =
                                 SetupDiffing(c.Spec.DiffStrategy, live.ServerVersion)],
                     ctl |-> "ctl",
                     info |-> live,
                     differs |-> Differs]
            /\ ret' = [op |-> "New", args |-> c, val |-> Some("k"), err |-> Nil]
            /\ calls' = <<<<"client.New", c.Spec.APIServer>>, <<"ctl.Info">>>>
    /\ UNCHANGED <<live, envVars, idVars, loVars, wVars, panicked>>

\* The server is upgraded while the engine lives.
ServerUpgrade ==
    /\ phase = "ready"
    /\ cpc = "idle"
    /\ Alive
    /\ live.ServerVersion # UpgradedVersion
    /\ live' = ClientInfo(UpgradedVersion)
    /\ UNCHANGED <<phase, k, ret, calls, envVars, idVars, loVars, wVars, panicked>>

\* ------------------------------------------------------------- Diff, Info

\* Diff(st, opts) up to the call k.differs[strategy](st), in which it waits
\* for the differ.  k.differs[strategy] of a missing key is a nil func:
\* calling it panics.
Diff(st, opts) ==
    /\ phase = "ready"
    /\ cpc = "idle"
    /\ Alive
    /\ LET strategy == ResolveStrategy(k.Env.Spec.DiffStrategy, opts.Strategy)
       IN  /\ ret' = [op |-> "Diff", args |-> opts, strategy |-> strategy,
                      differ |-> Nil, returned |-> FALSE, val |-> Nil, err |-> Nil]
           /\ IF strategy \notin DOMAIN k.differs
              THEN /\ panicked' = <<"Diff", "call of nil func">>
                   /\ calls' = <<>>
                   /\ cpc' = cpc
              ELSE /\ panicked' = panicked
                   /\ calls' = <<<<k.differs[strategy], st>>>>
                   /\ cpc' = "differ"
    /\ UNCHANGED <<phase, k, live, envVars, idVars, state, aopts, stdin, known, orphaned,
                   lastErr, li, i, rClosed, eClosed, loRet, stdout, wVars>>

\* Diffstat has not answered.
NoStat == [d |-> Nil, err |-> Nil]

\* The differ returns out = (d, err): Diff returns, or with opts.Summarize
\* and a diff it calls util.Diffstat(*d) and waits for it.
DifferReturn(out) ==
    /\ cpc = "differ"
    /\ Alive
    /\ LET res == DiffReturn(out, ret.args.Summarize, NoStat)
       IN  IF res.calls = <<>>
           THEN /\ ret' = [ret EXCEPT !.differ = Some(out), !.returned = TRUE,
                                      !.val = res.val, !.err = res.err]
                /\ calls' = calls
                /\ cpc' = "idle"
           ELSE /\ ret' = [ret EXCEPT !.differ = Some(out)]
                /\ calls' = calls \o res.calls
                /\ cpc' = "diffstat"
    /\ UNCHANGED <<phase, k, live, envVars, idVars, state, aopts, stdin, known, orphaned,
                   lastErr, li, i, rClosed, eClosed, loRet, stdout, wVars, panicked>>

\* util.Diffstat returns stat, which Diff returns.
DiffstatReturn(stat) ==
    /\ cpc = "diffstat"
    /\ Alive
    /\ LET res == DiffReturn(ret.differ[1], ret.args.Summarize, stat)
       IN  ret' = [ret EXCEPT !.returned = TRUE, !.val = res.val, !.err = res.err]
    /\ cpc' = "idle"
    /\ UNCHANGED <<phase, k, live, calls, envVars, idVars, state, aopts, stdin, known,
                   orphaned, lastErr, li, i, rClosed, eClosed, loRet, stdout, wVars,
                   panicked>>

\* Info()
Info ==
    /\ phase = "ready"
    /\ cpc = "idle"
    /\ Alive
    /\ ret' = [op |-> "Info", val |-> InfoReturn(k, live)]
    /\ calls' = <<>>
    /\ UNCHANGED <<phase, k, live, envVars, idVars, loVars, wVars, panicked>>


\* ------------------------------------------------------------- listOrphaned

\* fmt.Println(known): the line holding the map, which Go prints with its
\* keys sorted, so that the line depends on the set of keys only.
PrintlnMap(kn) == [map |-> kn]

\* for _, m := range list { fmt.Println(m.Identifier()) }: one line per
\* manifest, in list order.
PrintlnIdentifiers(list) == [j \in 1..Len(list) |-> Identifier(list[j])]

\* A goroutine of this call has been started and has not finished.
Running(kd) == wpc[kd] \notin {"idle", "done"}

\* A goroutine of this call that has not finished and will reach a send
\* (e <- ... or r <- list): one blocked in a send, or one whose GetByLabels
\* call returns.  A goroutine whose call never returns stays in it.
ReachesSend(kd) ==
    /\ Running(kd)
    /\ ~(wpc[kd] \in {"start", "query"} /\ cluster[kd] = Hang)

\* Entry of listOrphaned(st): known is built from st, orphaned is empty, r and
\* e are fresh channels.  Goroutines an earlier call left behind keep running
\* on that call's channels; leaked tells that one of them will reach a send.
EnterListOrphaned(st) ==
    /\ state' = st
    /\ known' = Known(st)
    /\ stdout' = <<PrintlnMap(Known(st)), "----">>
    /\ orphaned' = <<>>
    /\ lastErr' = Nil
    /\ li' = 1
    /\ i' = 0
    /\ rClosed' = FALSE
    /\ eClosed' = FALSE
    /\ loRet' = NoRet
    /\ cpc' = "launch"
    /\ wpc' = [kd \in Kinds |-> "idle"]
    /\ wres' = [kd \in Kinds |-> Ok(<<>>)]
    /\ qlog' = [kd \in Kinds |-> <<>>]
    /\ got' = <<>>
    /\ leaked' = (leaked \/ \E kd \in Kinds : ReachesSend(kd))

\* Apply(st, opts): the confirm-and-apply block is under "if false" and is
\* skipped; Apply calls k.listOrphaned(st).
ApplyStart(st, opts, answer) ==
    /\ phase = "ready"
    /\ cpc = "idle"
    /\ Alive
    /\ aopts' = opts
    /\ stdin' = answer
    /\ ret' = NoRet
    /\ calls' = <<>>
    /\ EnterListOrphaned(st)
    /\ UNCHANGED <<phase, k, live, envVars, idVars, panicked>>

\* k.listOrphaned(st) called on its own, again once the last call returned.
CallListOrphaned(st) ==
    /\ phase = "ready"
    /\ cpc \in {"idle", "returned"}
    /\ Alive
    /\ EnterListOrphaned(st)
    /\ UNCHANGED <<aopts, stdin, engineVars, envVars, idVars, panicked>>

\* for _, kind := range kinds { go k.parallelGetByLabels(kind, ...) }: one
\* goroutine is started per step, in catalog order.
Launch ==
    /\ cpc = "launch"
    /\ Alive
    /\ wpc' = [wpc EXCEPT ![kinds[li]] = "start"]
    /\ li' = li + 1
    /\ cpc' = IF li = NumKinds THEN "loop" ELSE "launch"
    /\ UNCHANGED <<engineVars, envVars, idVars, state, aopts, stdin, known, stdout, orphaned, lastErr, i,
                   rClosed, eClosed, loRet, wres, qlog, got, leaked, panicked>>

\* parallelGetByLabels: where the goroutine goes once GetByLabels returned.
AfterQuery(res) == IF res.err # Nil THEN "sendE" ELSE "sendR"

\* parallelGetByLabels: after e <- ... the goroutine goes on to r <- list.
AfterSendE == "sendR"

\* parallelGetByLabels: the arguments of its GetByLabels call.
QueryArgs(kind, envName) ==
    [namespace |-> "", kind |-> kind,
     labels |-> [key \in {LabelEnvironment} |-> envName]]

\* parallelGetByLabels(kind, envName, r, e): the goroutine calls
\* k.ctl.GetByLabels and waits for its answer.
WorkerCall(kd) ==
    /\ wpc[kd] = "start"
    /\ Alive
    /\ qlog' = [qlog EXCEPT ![kd] = Append(@, QueryArgs(kd, k.Env.Metadata.NameLabel))]
    /\ wpc' = [wpc EXCEPT ![kd] = "query"]
    /\ UNCHANGED <<engineVars, envVars, idVars, loVars, wres, got, leaked, panicked>>

\* parallelGetByLabels: GetByLabels returns list and err; a call that hangs
\* never does.
WorkerQuery(kd) ==
    /\ wpc[kd] = "query"
    /\ cluster[kd] # Hang
    /\ Alive
    /\ wres' = [wres EXCEPT ![kd] = cluster[kd]]
    /\ wpc' = [wpc EXCEPT ![kd] = AfterQuery(cluster[kd])]
    /\ UNCHANGED <<engineVars, envVars, idVars, loVars, qlog, got, leaked, panicked>>

\* select, case list := <-r, meeting the send r <- list of kd's goroutine.
RecvR(kd) ==
    /\ cpc = "loop"
    /\ i < NumKinds
    /\ wpc[kd] = "sendR"
    /\ Alive
    /\ stdout' = stdout \o PrintlnIdentifiers(wres[kd].list)
    /\ orphaned' = orphaned \o Unknown(wres[kd].list, known)
    /\ i' = i + 1
    /\ wpc' = [wpc EXCEPT ![kd] = "done"]
    /\ got' = Append(got, [from |-> kd, ch |-> "r"])
    /\ UNCHANGED <<engineVars, envVars, idVars, cpc, state, aopts, stdin, known, lastErr, li,
                   rClosed, eClosed, loRet, wres, qlog, leaked, panicked>>

\* A loop that keeps the first error it received.
KeepFirstErr(old, err) == IF old # Nil THEN old ELSE err

\* listOrphaned, case err := <-e: lastErr = err
SetLastErr(old, err) == err

\* select, case err := <-e, meeting the send e <- errors.Wrapf(...) of kd's
\* goroutine.
RecvE(kd) ==
    /\ cpc = "loop"
    /\ i < NumKinds
    /\ wpc[kd] = "sendE"
    /\ Alive
    /\ lastErr' = SetLastErr(lastErr,
                             Wrapf(wres[kd].err, "getting orphans of kind '%s':", kd))
    /\ i' = i + 1
    /\ wpc' = [wpc EXCEPT ![kd] = AfterSendE]
    /\ got' = Append(got, [from |-> kd, ch |-> "e"])
    /\ UNCHANGED <<engineVars, envVars, idVars, cpc, state, aopts, stdin, known, stdout, orphaned, li,
                   rClosed, eClosed, loRet, wres, qlog, leaked, panicked>>

\* The loop ends at i = len(kinds); close(r).
CloseR ==
    /\ cpc = "loop"
    /\ i = NumKinds
    /\ Alive
    /\ rClosed' = TRUE
    /\ cpc' = "closeE"
    /\ UNCHANGED <<engineVars, envVars, idVars, state, aopts, stdin, known, stdout, orphaned, lastErr, li,
                   i, eClosed, loRet, wVars, panicked>>

\* close(e)
CloseE ==
    /\ cpc = "closeE"
    /\ Alive
    /\ eClosed' = TRUE
    /\ cpc' = "return"
    /\ UNCHANGED <<engineVars, envVars, idVars, state, aopts, stdin, known, stdout, orphaned, lastErr, li,
                   i, rClosed, loRet, wVars, panicked>>

\* A return that hands out what was collected next to the error.
ListOrphanedReturnPartial(lerr, list) == [list |-> Some(list), err |-> lerr]

\* if lastErr != nil { return nil, lastErr }; return orphaned, nil
ListOrphanedReturn(lerr, list) ==
    IF lerr # Nil THEN [list |-> Nil, err |-> lerr]
    ELSE [list |-> Some(list), err |-> Nil]

\* listOrphaned returns to its caller.
Return ==
    /\ cpc = "return"
    /\ Alive
    /\ loRet' = ListOrphanedReturn(lastErr, orphaned)
    /\ cpc' = "returned"
    /\ UNCHANGED <<engineVars, envVars, idVars, state, aopts, stdin, known, stdout, orphaned, lastErr, li,
                   i, rClosed, eClosed, wVars, panicked>>

\* A goroutine sending on a closed channel panics, which ends the process.
WorkerPanic(kd) ==
    /\ \/ wpc[kd] = "sendR" /\ rClosed
       \/ wpc[kd] = "sendE" /\ eClosed
    /\ Alive
    /\ panicked' = <<kd, "send on closed channel">>
    /\ wpc' = [wpc EXCEPT ![kd] = "panicked"]
    /\ UNCHANGED <<engineVars, envVars, idVars, loVars, wres, qlog, got, leaked>>

\* A goroutine an earlier call left behind reaches its send (one stuck in a
\* GetByLabels call that never returns does not): that call closed both
\* channels before it returned.
LeakedPanic ==
    /\ leaked
    /\ Alive
    /\ panicked' = <<"leaked", "send on closed channel">>
    /\ UNCHANGED <<engineVars, envVars, idVars, loVars, wVars>>

\* Apply after listOrphaned returned lo, having written the lines out: the
\* error is returned, or the line "orphan" and one line per orphan are
\* printed and nil is returned.  printed is all that went to standard output
\* during the Apply.
ApplyReturn(lo, out) ==
    IF lo.err # Nil THEN [err |-> lo.err, printed |-> out]
    ELSE [err |-> Nil,
          printed |-> out \o <<"orphan">> \o PrintlnIdentifiers(lo.list[1])]

\* Apply returns.  The locals of listOrphaned are gone; goroutines that have
\* not finished are left behind.
ApplyFinish ==
    /\ cpc = "returned"
    /\ Alive
    /\ ret' = [op |-> "Apply",
               args |-> [state |-> state, opts |-> aopts, stdin |-> stdin],
               err |-> ApplyReturn(loRet, stdout).err,
               printed |-> ApplyReturn(loRet, stdout).printed]
    /\ cpc' = "idle"
    /\ state' = <<>>
    /\ aopts' = [AutoApprove |-> FALSE]
    /\ stdin' = ""
    /\ known' = {}
    /\ orphaned' = <<>>
    /\ lastErr' = Nil
    /\ li' = 1
    /\ i' = 0
    /\ rClosed' = FALSE
    /\ eClosed' = FALSE
    /\ loRet' = NoRet
    /\ stdout' = <<>>
    /\ wpc' = [kd \in Kinds |-> "idle"]
    /\ wres' = [kd \in Kinds |-> Ok(<<>>)]
    /\ qlog' = [kd \in Kinds |-> <<>>]
    /\ got' = <<>>
    /\ leaked' = (leaked \/ \E kd \in Kinds : ReachesSend(kd))
    /\ UNCHANGED <<phase, k, live, calls, envVars, idVars, panicked>>

\* ------------------------------------------------------------- specifications

\* The engine: New, then Diff, Info and Apply called one at a time.
Next ==
    \/ \E c \in {Config(n) : n \in StrategyNames},
          clientErr \in {Nil, <<"no kubectl">>},
          infoErr \in {Nil, <<"no server">>} : New(c, clientErr, infoErr)
    \/ ServerUpgrade
    \/ \E st \in EngineStates, opts \in DiffOptsSet : Diff(st, opts)
    \/ \E out \in DifferOutputs : DifferReturn(out)
    \/ \E stat \in DiffstatOutputs : DiffstatReturn(stat)
    \/ Info
    \/ \E st \in EngineStates, opts \in ApplyOptsSet,
          answer \in {"yes", "no"} : ApplyStart(st, opts, answer)
    \/ Launch
    \/ \E kd \in Kinds : WorkerCall(kd)
    \/ \E kd \in Kinds : WorkerQuery(kd)
    \/ \E kd \in Kinds : RecvR(kd)
    \/ \E kd \in Kinds : RecvE(kd)
    \/ CloseR
    \/ CloseE
    \/ Return
    \/ \E kd \in Kinds : WorkerPanic(kd)
    \/ LeakedPanic
    \/ ApplyFinish

Spec == Init /\ [][Next]_vars

\* listOrphaned on a constructed engine, over every cluster.
InitOrphan ==
    /\ phase = "ready"
    /\ k = [Env |-> Config("native"), ctl |-> "ctl",
            info |-> ClientInfo(NativeDiffSince), differs |-> Differs]
    /\ live = ClientInfo(NativeDiffSince)
    /\ cluster \in Clusters
    /\ ret = NoRet
    /\ calls = <<>>
    /\ panicked = Nil
    /\ LoIdle

NextOrphan ==
    \/ \E st \in DesiredStates(cluster) : CallListOrphaned(st)
    \/ Launch
    \/ \E kd \in Kinds : WorkerCall(kd)
    \/ \E kd \in Kinds : WorkerQuery(kd)
    \/ \E kd \in Kinds : RecvR(kd)
    \/ \E kd \in Kinds : RecvE(kd)
    \/ CloseR
    \/ CloseE
    \/ Return
    \/ \E kd \in Kinds : WorkerPanic(kd)
    \/ LeakedPanic

SpecOrphan == InitOrphan /\ [][NextOrphan]_vars

\* The goroutine running listOrphaned keeps running, a select with a ready
\* sender receives, every goroutine started makes its GetByLabels call, every
\* call that does not hang returns, and a goroutine whose send
\* hits a closed channel runs into its panic.
FairOrphan ==
    /\ WF_vars(Launch)
    /\ WF_vars(\E kd \in Kinds : RecvR(kd) \/ RecvE(kd))
    /\ WF_vars(CloseR)
    /\ WF_vars(CloseE)
    /\ WF_vars(Return)
    /\ \A kd \in Kinds : WF_vars(WorkerCall(kd))
    /\ \A kd \in Kinds : WF_vars(WorkerQuery(kd))
    /\ \A kd \in Kinds : WF_vars(WorkerPanic(kd))

SpecOrphanFair == InitOrphan /\ [][NextOrphan]_vars /\ FairOrphan

\* listOrphaned on a constructed engine, where the query of one kind never
\* returns.
InitHang ==
    /\ phase = "ready"
    /\ k = [Env |-> Config("native"), ctl |-> "ctl",
            info |-> ClientInfo(NativeDiffSince), differs |-> Differs]
    /\ live = ClientInfo(NativeDiffSince)
    /\ cluster \in HangClusters
    /\ ret = NoRet
    /\ calls = <<>>
    /\ panicked = Nil
    /\ LoIdle

SpecHang == InitHang /\ [][NextOrphan]_vars

\* Manifests handed to Identifier: two kinds, names, namespaces, label sets
\* and bodies.
IdentifierInputs ==
    {Manifest(kd, name, namespace, labels, body) :
        kd \in {kinds[1], kinds[NumKinds]}, name \in {"api", "worker"},
        namespace \in {"", "prod"},
        labels \in {EnvLabels, [key \in {LabelEnvironment} |-> "other"]},
        body \in {"desired", "live"}}

\* m1.Identifier() and m2.Identifier() are evaluated.
Identify ==
    /\ idIn # <<>>
    /\ idOut = Nil
    /\ idOut' = <<Identifier(idIn[1]), Identifier(idIn[2])>>
    /\ UNCHANGED <<idIn, engineVars, envVars, loVars, wVars, panicked>>

\* Identifier on pairs of manifests.
InitIdentifier ==
    /\ phase = "start"
    /\ k = Nil
    /\ live = ClientInfo(NativeDiffSince)
    /\ cluster \in {c \in EngineClusters : \A kd \in Kinds : c[kd].err = Nil}
    /\ ret = NoRet
    /\ calls = <<>>
    /\ panicked = Nil
    /\ cpc = "idle"
    /\ state = <<>>
    /\ aopts = [AutoApprove |-> FALSE]
    /\ stdin = ""
    /\ known = {}
    /\ orphaned = <<>>
    /\ lastErr = Nil
    /\ li = 1
    /\ i = 0
    /\ rClosed = FALSE
    /\ eClosed = FALSE
    /\ loRet = NoRet
    /\ stdout = <<>>
    /\ wpc = [kd \in Kinds |-> "idle"]
    /\ wres = [kd \in Kinds |-> Ok(<<>>)]
    /\ qlog = [kd \in Kinds |-> <<>>]
    /\ got = <<>>
    /\ leaked = FALSE
    /\ idIn \in IdentifierInputs \X IdentifierInputs
    /\ idOut = Nil

NextIdentifier == Identify

SpecIdentifier == InitIdentifier /\ [][NextIdentifier]_vars


\* ------------------------------------------------------------- properties

\* How often x occurs in seq.
Count(seq, x) == Cardinality({j \in 1..Len(seq) : seq[j] = x})

\* a and b hold the same elements, each as often.
SameElements(a, b) ==
    /\ Len(a) = Len(b)
    /\ \A x \in Range(a) \cup Range(b) : Count(a, x) = Count(b, x)

\* Manifest m names the same resource as some manifest of st: equal kind,
\* name and namespace.
Desired(m, st) ==
    \E j \in 1..Len(st) :
        /\ st[j].kind = m.kind
        /\ st[j].name = m.name
        /\ st[j].namespace = m.namespace

\* Every category query of the cluster succeeds.
AllSucceed == \A kd \in Kinds : cluster[kd].err = Nil

\* The query of kd has returned an error in this call.
QueryFailed(kd) == qlog[kd] # <<>> /\ wres[kd].err # Nil

\* C1: when every category query succeeds, listOrphaned returns, with a nil
\* error, exactly the live manifests whose (kind, name, namespace) is not that
\* of a desired manifest, each once; none of the returned ones is desired.
C1_OrphansAreLiveMinusDesired ==
    (cpc = "returned" /\ AllSucceed) =>
        /\ loRet.err = Nil
        /\ loRet.list # Nil
        /\ SameElements(loRet.list[1],
                        SelectSeq(Live(cluster), LAMBDA m : ~Desired(m, state)))
        /\ \A m \in Range(loRet.list[1]) : ~Desired(m, state)
        /\ (state = <<>> => SameElements(loRet.list[1], Live(cluster)))
        /\ (state = Live(cluster) => loRet.list[1] = <<>>)

\* C1 witness: a call returned on a healthy cluster where one live manifest
\* is desired under another body, one differs from it in namespace only, and
\* the result keeps some live manifests and drops others.
C1_Witness ==
    /\ cpc = "returned"
    /\ AllSucceed
    /\ loRet.list # Nil
    /\ loRet.list[1] # <<>>
    /\ Len(loRet.list[1]) < Len(Live(cluster))
    /\ \E m \in Range(loRet.list[1]), j \in 1..Len(state) :
          /\ m.kind = state[j].kind
          /\ m.name = state[j].name
          /\ m.namespace # state[j].namespace

\* C2: once a category query has failed, the fan-in loop ends with lastErr
\* set, and listOrphaned returns that error with a nil list.
C2_FailureDiscardsResult ==
    /\ ((\E kd \in Kinds : QueryFailed(kd))
          /\ (cpc \in {"closeE", "return", "returned"}
                \/ (cpc = "loop" /\ i = NumKinds))
        => lastErr # Nil)
    /\ ((\E kd \in Kinds : QueryFailed(kd)) /\ cpc = "returned"
        => loRet.err # Nil /\ loRet.list = Nil)

\* C2 witness: a call returned an error after orphans had been collected.
C2_Witness ==
    /\ cpc = "returned"
    /\ \E kd \in Kinds : QueryFailed(kd)
    /\ orphaned # <<>>
    /\ loRet.err # Nil
    /\ loRet.list = Nil

\* C3: when listOrphaned returns, every kind of the catalog has been queried
\* exactly once and its query has completed.
C3_EveryKindQueriedOnceAtReturn ==
    cpc = "returned" => \A kd \in Kinds : Len(qlog[kd]) = 1 /\ wpc[kd] \notin {"start", "query"}


\* C4: a Diff whose resolved strategy is not registered returns the
\* UnknownStrategy error to its caller, without a panic and without calling
\* any differ.
C4_UnknownStrategyIsAnError ==
    (ret.op = "Diff" /\ ret.strategy \notin {"native", "subset"}) =>
        /\ panicked = Nil
        /\ ret.returned
        /\ ret.val = Nil
        /\ ret.err = <<"UnknownStrategy">>
        /\ calls = <<>>

\* The precedence of version v as one number: major, minor, patch, and a
\* release after its pre-releases.
Precedence(v) ==
    ((v[1] * 100 + v[2]) * 100 + v[3]) * 10 + (IF v[4] = 0 THEN 9 ELSE v[4])

\* C5: right after a successful New, the instance default is the configured
\* name when there is one, else "subset" for a server version below 1.13.0
\* and "native" from 1.13.0 on (1.12.9 -> subset, 1.13.0 and 1.13.1 -> native).
C5_DefaultStrategyByVersion ==
    (ret.op = "New" /\ ret.err = Nil) =>
        LET configured == ret.args.Spec.DiffStrategy
            v == k.info.ServerVersion
            default == k.Env.Spec.DiffStrategy
        IN  /\ configured # "" => default = configured
            /\ configured = "" /\ Precedence(v) < Precedence(Version(1, 13, 0, 0))
                 => default = "subset"
            /\ configured = "" /\ Precedence(v) >= Precedence(Version(1, 13, 0, 0))
                 => default = "native"
            /\ configured = "" /\ v = Version(1, 12, 9, 0) => default = "subset"
            /\ configured = "" /\ v = Version(1, 13, 0, 0) => default = "native"
            /\ configured = "" /\ v = Version(1, 13, 1, 0) => default = "native"

\* C5 witness: New without a configured name on a 0.14.0 server chose subset.
C5_Witness ==
    /\ ret.op = "New"
    /\ ret.err = Nil
    /\ ret.args.Spec.DiffStrategy = ""
    /\ k.info.ServerVersion = Version(0, 14, 0, 0)
    /\ k.Env.Spec.DiffStrategy = "subset"

\* C6: an Apply that was approved (autoApprove, or "yes" typed) and returned
\* no error has called the client's apply exactly once, with the desired state.
C6_ApprovedApplyCallsClientOnce ==
    (ret.op = "Apply" /\ ret.err = Nil
       /\ (ret.args.opts.AutoApprove \/ ret.args.stdin = "yes")) =>
        /\ Count(calls, <<"ctl.Apply", ret.args.state>>) = 1
        /\ \A j \in 1..Len(calls) :
              calls[j][1] = "ctl.Apply" => calls[j] = <<"ctl.Apply", ret.args.state>>

\* C7: the client's apply is called only after approval, and an Apply without
\* autoApprove whose confirmation is not answered "yes" ends with NotConfirmed
\* (or with the error of a failed orphan listing before it) and without a
\* call of the client's apply.
C7_UnconfirmedApplyAborts ==
    ret.op = "Apply" =>
        /\ (\E j \in 1..Len(calls) : calls[j][1] = "ctl.Apply")
              => (ret.args.opts.AutoApprove \/ ret.args.stdin = "yes")
        /\ (~ret.args.opts.AutoApprove /\ ret.args.stdin # "yes")
              => /\ ret.err # Nil
                 /\ \/ ret.err = <<"NotConfirmed">>
                    \/ ret.err[1] = "getting orphans of kind '%s':"
                 /\ \A j \in 1..Len(calls) : calls[j][1] # "ctl.Apply"

\* Diffstat was called by the last engine call.
DiffstatCalled == \E j \in 1..Len(calls) : calls[j][1] = "util.Diffstat"

\* C8: a Diff whose differ returned (nil, nil) returns (nil, nil) and calls no
\* Diffstat, whatever opts.Summarize; one whose differ returned a text, the
\* empty one included, without Summarize returns that text and not nil; one
\* whose differ returned an error returns nil and that error.
C8_NoDiffIsNotEmptyDiff ==
    (ret.op = "Diff" /\ ret.returned) =>
        LET out == ret.differ[1]
        IN  /\ (out.err = Nil /\ out.d = Nil)
                 => ret.val = Nil /\ ret.err = Nil /\ ~DiffstatCalled
            /\ (out.err = Nil /\ out.d # Nil /\ ~ret.args.Summarize)
                 => ret.val = out.d /\ ret.val # Nil /\ ret.err = Nil /\ ~DiffstatCalled
            /\ out.err # Nil
                 => ret.val = Nil /\ ret.err = out.err /\ ~DiffstatCalled

\* C8 witness: a Diff without Summarize returned the empty text its differ
\* produced.
C8_Witness ==
    /\ ret.op = "Diff"
    /\ ret.returned
    /\ ret.differ[1] = [d |-> Some(""), err |-> Nil]
    /\ ~ret.args.Summarize
    /\ ret.val = Some("")
    /\ ret.err = Nil

\* C9: the strategy a Diff resolves is its opts.Strategy when that is not
\* empty and the instance default otherwise; a Diff calls nothing before the
\* differ registered under that name (nothing at all when none is), and no
\* step on a constructed engine changes the instance default or the registry.
C9_StrategyResolution ==
    /\ [](ret.op = "Diff" =>
            /\ ret.args.Strategy # "" => ret.strategy = ret.args.Strategy
            /\ ret.args.Strategy = "" => ret.strategy = k.Env.Spec.DiffStrategy
            /\ ret.strategy \in {"native", "subset"}
                 => calls # <<>> /\ calls[1][1] = Differs[ret.strategy]
            /\ ret.strategy \notin {"native", "subset"} => calls = <<>>
            /\ \A j \in 1..Len(calls) :
                  calls[j][1] \in {"ctl.DiffServerSide", "SubsetDiffer(ctl)", "util.Diffstat"})
    /\ [][phase = "ready" =>
            /\ k'.Env.Spec.DiffStrategy = k.Env.Spec.DiffStrategy
            /\ k'.differs = k.differs]_vars

\* C9 witness: a Diff with opts.Strategy "subset" on an engine whose default
\* is "native" called the subset differ.
C9_Witness ==
    /\ ret.op = "Diff"
    /\ ret.returned
    /\ ret.args.Strategy = "subset"
    /\ k.Env.Spec.DiffStrategy = "native"
    /\ ret.strategy = "subset"
    /\ calls[1][1] = "SubsetDiffer(ctl)"

\* C10: k.info is what the client reported when New ran and never changes
\* afterwards; Info returns it; no call on a constructed engine asks the
\* client for its info.
C10_InfoIsConstructionSnapshot ==
    /\ [][phase = "start" /\ phase' = "ready" => k'.info = live]_vars
    /\ [][phase = "ready" => k'.info = k.info]_vars
    /\ [](ret.op = "Info" => ret.val = k.info)
    /\ [](phase = "ready" /\ ret.op # "New"
            => \A j \in 1..Len(calls) : calls[j][1] # "ctl.Info")

\* C10 witness: after an Apply that left goroutines behind and a server
\* upgrade, Info returned the snapshot, which is no longer what the client
\* would report.
C10_Witness ==
    /\ ret.op = "Info"
    /\ leaked
    /\ live # k.info
    /\ ret.val = k.info


\* C11: the identifiers of two manifests are equal exactly when their kind,
\* name and namespace are pairwise equal; manifests that differ in body or
\* labels only have equal identifiers, manifests that differ in namespace
\* only have different ones.
C11_IdentifierEquality ==
    idOut # Nil =>
        LET m1 == idIn[1]
            m2 == idIn[2]
        IN  /\ (idOut[1] = idOut[2])
                 <=> (m1.kind = m2.kind /\ m1.name = m2.name
                        /\ m1.namespace = m2.namespace)
            /\ (m1.kind = m2.kind /\ m1.name = m2.name /\ m1.namespace = m2.namespace
                  /\ (m1.body # m2.body \/ m1.labels # m2.labels))
                 => idOut[1] = idOut[2]
            /\ (m1.kind = m2.kind /\ m1.name = m2.name /\ m1.namespace # m2.namespace
                  /\ m1.body = m2.body /\ m1.labels = m2.labels)
                 => idOut[1] # idOut[2]

\* C11 witness: Identifier gave one identifier for two manifests that differ
\* in body and in labels.
C11_Witness ==
    /\ idOut # Nil
    /\ idIn[1].body # idIn[2].body
    /\ idIn[1].labels # idIn[2].labels
    /\ idOut[1] = idOut[2]


\* The outcomes the fan-in loop received from kd's goroutine on channel ch.
Received(kd, ch) == {j \in 1..Len(got) : got[j].from = kd /\ got[j].ch = ch}

\* C12: a goroutine never gets both a send on e and a send on r through, and
\* one that has finished has sent exactly one outcome.
C12_OneOutcomePerWorker ==
    \A kd \in Kinds :
        /\ ~(Received(kd, "e") # {} /\ Received(kd, "r") # {})
        /\ wpc[kd] = "done"
             => Cardinality(Received(kd, "e")) + Cardinality(Received(kd, "r")) = 1

\* C13: when listOrphaned returns, the len(kinds) outcomes the loop received
\* came from len(kinds) distinct goroutines, one from each kind.
C13_OneOutcomeFromEachWorker ==
    cpc = "returned" =>
        /\ Len(got) = NumKinds
        /\ {got[j].from : j \in 1..Len(got)} = Kinds
        /\ \A j1, j2 \in 1..Len(got) : got[j1].from = got[j2].from => j1 = j2

\* C14: when listOrphaned returns, every goroutine it started has finished:
\* none is still in its query or blocked in a send.
C14_NoWorkerLeftAtReturn ==
    cpc = "returned" => \A kd \in Kinds : wpc[kd] = "done"

\* C15: once r is closed no goroutine has a send on r ahead of it, once e is
\* closed none has a send on e ahead of it, and no goroutine panics with a
\* send on a closed channel.
C15_NoSendOnClosedChannel ==
    /\ rClosed => \A kd \in Kinds : wpc[kd] \notin {"start", "query", "sendE", "sendR"}
    /\ eClosed => \A kd \in Kinds :
                     /\ wpc[kd] # "sendE"
                     /\ ~(wpc[kd] \in {"start", "query"} /\ cluster[kd].err # Nil)
    /\ \A kd \in Kinds : wpc[kd] # "panicked"
    /\ (panicked # Nil => panicked[2] # "send on closed channel")


\* C16: on a cluster where the query of one kind never returns, listOrphaned
\* never returns.
C16_HungQueryHangsTheCall == cpc # "returned"


\* The positions of got at which an error was received.
ErrorsReceived == {j \in 1..Len(got) : got[j].ch = "e"}

\* The position of the error received last.
LastErrorReceived == CHOOSE j \in ErrorsReceived : \A j2 \in ErrorsReceived : j2 <= j

\* The error of kd's query as parallelGetByLabels wraps it.
WrappedErrorOf(kd) ==
    <<"getting orphans of kind '%s':", kd>> \o cluster[kd].err

\* C17: when listOrphaned returns after receiving errors, the error it
\* returns is the one received last, wrapped with its kind, and it is none
\* of the errors of other kinds received before.
C17_LastErrorWins ==
    (cpc = "returned" /\ ErrorsReceived # {}) =>
        /\ loRet.err = WrappedErrorOf(got[LastErrorReceived].from)
        /\ \A j \in ErrorsReceived :
              got[j].from # got[LastErrorReceived].from
                 => loRet.err # WrappedErrorOf(got[j].from)

\* C17 witness: listOrphaned returned after receiving the errors of two
\* kinds.
C17_Witness ==
    /\ cpc = "returned"
    /\ \E j1, j2 \in ErrorsReceived : got[j1].from # got[j2].from
    /\ loRet.err = WrappedErrorOf(got[LastErrorReceived].from)


\* C18: with every query returning and every goroutine scheduled, a call of
\* listOrphaned that has started eventually returns.
C18_ListOrphanedReturns == (cpc = "launch") ~> (cpc = "returned")


\* C19: every GetByLabels call of a listOrphaned call asks for its kind in the
\* namespace the environment configures, selected by the environment label
\* with the environment's name label as value.
C19_QueryNamespaceAndSelector ==
    \A kd \in Kinds : \A j \in 1..Len(qlog[kd]) :
        /\ qlog[kd][j].kind = kd
        /\ qlog[kd][j].namespace = k.Env.Spec.Namespace
        /\ DOMAIN qlog[kd][j].labels = {LabelEnvironment}
        /\ qlog[kd][j].labels[LabelEnvironment] = k.Env.Metadata.NameLabel

\* The (kind, name, namespace) triples of the manifests of st.
TriplesOf(st) ==
    {[Kind |-> st[j].kind, Name |-> st[j].name, Namespace |-> st[j].namespace] :
        j \in 1..Len(st)}

\* C20: from the start of the first goroutine until listOrphaned returns,
\* known holds exactly the identities of the desired state and does not
\* change; the steps of the goroutines leave known, orphaned, lastErr and i
\* alone, and orphaned and lastErr change only at the call's entry or in a
\* receive of the fan-in loop.
C20_KnownBuiltOnceWorkersWriteNothing ==
    /\ []((cpc \notin {"idle"}) => known = TriplesOf(state))
    /\ [][(cpc \in {"launch", "loop", "closeE", "return"}) => (known' = known)]_vars
    /\ [][(\E kd \in Kinds : WorkerCall(kd) \/ WorkerQuery(kd) \/ WorkerPanic(kd))
            => (UNCHANGED <<known, orphaned, lastErr, i, state, loRet>>)]_vars
    /\ [][(orphaned' # orphaned \/ lastErr' # lastErr)
            => (\/ cpc \in {"idle", "returned"} /\ cpc' = "launch"
                \/ cpc = "loop" /\ cpc' = "loop" /\ i' = i + 1)]_vars

\* C20 witness: a call with a non-empty desired state has started all its
\* goroutines, one of them has completed its query, and orphans have been
\* collected.
C20_Witness ==
    /\ cpc = "loop"
    /\ known # {}
    /\ known = TriplesOf(state)
    /\ orphaned # <<>>
    /\ \E kd \in Kinds : wpc[kd] \in {"sendR", "sendE"}

====
